---- MODULE Spec2Model ----
(***************************************************************************)
(* MemoryStorage (src/src/memory_storage/mod.rs): the in-memory reference  *)
(* backend of the RaftStorage contract.  The actor owns a hard state, a    *)
(* log and a state machine (two BTreeMap<u64, Entry>) and an optional      *)
(* current snapshot, and answers eight messages, one handler each.         *)
(*                                                                         *)
(* Option<T> is modelled as a sequence of length 0 (None) or 1 (Some).     *)
(* BTreeMap<u64, Entry> is modelled as a function whose DOMAIN is the set  *)
(* of keys present.                                                        *)
(***************************************************************************)
EXTENDS Integers, Sequences, FiniteSets, TLC

\* ---------------------------------------------------------------- bounds
\* the largest index of an entry handed to the backend
MaxIndex == 1

\* the number of messages the callers send to one actor
MaxSent == 3

\* ---------------------------------------------------------------- values
\* the indices of the entries handed in, and the u64 values used as the
\* start and stop of a range (one more, so that a range can cover them all)
EntryIndex == 0..MaxIndex
RangeBound == 0..(MaxIndex + 1)
EntryTerm == {1, 2}
Payload == {"x"}
\* the lengths of the batches handed in: a batch of two can repeat an index,
\* run against the index order and leave a gap
BatchLength == {0, 1, 2}
\* messages::Entry
Entry == [index : EntryIndex, term : EntryTerm, payload : Payload]
Batch == UNION {[1..n -> Entry] : n \in BatchLength}
\* the entries the engine applies: of one term, and of either term at index
\* 0, so that a batch can hold two different entries of one index
AppliedEntry == {e \in Entry : e.term = 1 \/ e.index = 0}
AppliedBatch == UNION {[1..n -> AppliedEntry] : n \in BatchLength}
\* storage::HardState
HardState == {[current_term |-> 1, voted_for |-> <<"n1">>, members |-> <<"n1">>],
              [current_term |-> 2, voted_for |-> <<>>, members |-> <<"n2", "n3">>]}
\* the arguments of MemoryStorage::new
InitMembers == <<"n1", "n2">>
InitSnapshotDir == "/tmp/snapshots"

\* the fields of MemoryStorage
VARIABLES hs, log, snapshot_data, snapshot_dir, state_machine
\* alive: no handler has panicked; reply: the answer to the last message
VARIABLES alive, reply
\* history: per index the entry last handed to AppendLogEntries, the hard
\* state last handed to SaveHardState, the indices handed to
\* ApplyEntriesToStateMachine, per index the entry last handed to it
VARIABLES written, saved, applied, applied_entry
\* the actor's mailbox, the messages in arrival order, the replies in
\* delivery order
VARIABLES mailbox, arrived, replies

store == <<hs, log, snapshot_data, snapshot_dir, state_machine>>
history == <<written, saved, applied, applied_entry>>
actor == <<mailbox, arrived, replies>>
vars == <<hs, log, snapshot_data, snapshot_dir, state_machine, alive, reply,
          written, saved, applied, applied_entry, mailbox, arrived, replies>>

\* ------------------------------------------------------ BTreeMap<u64, _>
EmptyMap == [k \in {} |-> 0]

\* an insert that puts v under a later key when k is taken
InsertAtFreeKey(m, k, v) ==
    IF k \in DOMAIN m
    THEN [i \in DOMAIN m \cup {Cardinality(DOMAIN m) + k} |-> IF i \in DOMAIN m THEN m[i] ELSE v]
    ELSE [i \in DOMAIN m \cup {k} |-> IF i = k THEN v ELSE m[i]]

\* an insert that keeps the value already stored under k
InsertKeepOld(m, k, v) == [i \in DOMAIN m \cup {k} |-> IF i \in DOMAIN m THEN m[i] ELSE v]

\* BTreeMap::insert: the value under k is replaced, every other key is kept
Insert(m, k, v) == [i \in DOMAIN m \cup {k} |-> IF i = k THEN v ELSE m[i]]

MinKey(S) == CHOOSE k \in S : \A j \in S : k <= j
MaxKey(S) == CHOOSE k \in S : \A j \in S : j <= k

RECURSIVE IterKeys(_, _)
\* the values of m under the keys of S, in ascending key order
IterKeys(m, S) ==
    IF S = {} THEN <<>>
    ELSE <<m[MinKey(S)]>> \o IterKeys(m, S \ {MinKey(S)})

\* BTreeMap::range(start..stop) followed by .map(|e| e.1.clone()).collect();
\* only called with start <= stop (range panics otherwise)
Range(m, start, stop) ==
    IterKeys(m, {k \in DOMAIN m : start <= k /\ k < stop})

\* BTreeMap::iter().last(): the (key, value) pair of the largest key
IterLast(m) ==
    IF DOMAIN m = {} THEN <<>>
    ELSE <<[key |-> MaxKey(DOMAIN m), value |-> m[MaxKey(DOMAIN m)]]>>

\* Option::map(f).unwrap_or(0), with f already applied to the element
UnwrapOr0(opt) == IF opt = <<>> THEN 0 ELSE opt[1]

\* ------------------------------------------------------------- batches
\* the indices a batch writes, and the entry it writes last at index i
Indices(es) == {es[j].index : j \in 1..Len(es)}
LastAt(es, i) ==
    es[CHOOSE j \in 1..Len(es) :
           es[j].index = i /\ \A k \in (j + 1)..Len(es) : es[k].index # i]
\* m with every index of es mapped to the entry es writes last there
Upserted(m, es) ==
    LET idx == Indices(es)
    IN  [i \in DOMAIN m \cup idx |-> IF i \in idx THEN LastAt(es, i) ELSE m[i]]

\* ------------------------------------------------------------- messages
\* one record shape for the eight message types; a field a message type
\* does not have holds the default of NoArgs
NoArgs == [start |-> 0, stop |-> 0, entries |-> <<>>, hs |-> <<>>, through |-> 0]
Msg(op, args) ==
    [op |-> op, start |-> args.start, stop |-> args.stop, entries |-> args.entries,
     hs |-> args.hs, through |-> args.through]

GetInitialStateMsgs == {Msg("GetInitialState", NoArgs)}
SaveHardStateMsgs ==
    {Msg("SaveHardState", [NoArgs EXCEPT !.hs = <<h>>]) : h \in HardState}
GetLogEntriesMsgs ==
    {Msg("GetLogEntries", [NoArgs EXCEPT !.start = a, !.stop = b]) :
        a \in RangeBound, b \in RangeBound}
AppendLogEntriesMsgs ==
    {Msg("AppendLogEntries", [NoArgs EXCEPT !.entries = es]) : es \in Batch}
ApplyEntriesToStateMachineMsgs ==
    {Msg("ApplyEntriesToStateMachine", [NoArgs EXCEPT !.entries = es]) : es \in AppliedBatch}
CreateSnapshotMsgs ==
    {Msg("CreateSnapshot", [NoArgs EXCEPT !.through = t]) : t \in EntryIndex}
InstallSnapshotMsgs ==
    {Msg("InstallSnapshot", [NoArgs EXCEPT !.through = t]) : t \in EntryIndex}
GetCurrentSnapshotMsgs == {Msg("GetCurrentSnapshot", NoArgs)}

\* what the caller gets back: the message answered, Ok / Err(MemoryStorageError)
\* / a panic of the handler, and the Ok value by result type
Reply(msg, status, entries, state, snapshot) ==
    [msg |-> msg, status |-> status, entries |-> entries,
     state |-> state, snapshot |-> snapshot]
NoReply == Reply(Msg("new", NoArgs), "ok", <<>>, <<>>, <<>>)

\* ---------------------------------------------------------- constructor
\* a constructor that starts at term 1
NewHardStateTermOne(members) ==
    [current_term |-> 1, voted_for |-> <<>>, members |-> members]

NewHardState(members) ==
    [current_term |-> 0, voted_for |-> <<>>, members |-> members]
NewSnapshotData == <<>>

Init ==
    /\ hs = NewHardState(InitMembers)
    /\ log = EmptyMap
    /\ snapshot_data = NewSnapshotData
    /\ snapshot_dir = InitSnapshotDir
    /\ state_machine = EmptyMap
    /\ alive = TRUE
    /\ reply = NoReply
    /\ written = EmptyMap
    /\ saved = <<>>
    /\ applied = {}
    /\ applied_entry = EmptyMap
    /\ mailbox = <<>>
    /\ arrived = <<>>
    /\ replies = <<>>

\* ------------------------------------------------------------- handlers
\* last_log_term read from the first entry of the log instead of the last
InitialStateOfFirstTerm(l, sm, h) ==
    [last_log_index |-> UnwrapOr0(IF IterLast(l) = <<>> THEN <<>> ELSE <<IterLast(l)[1].key>>),
     last_log_term |-> IF DOMAIN l = {} THEN 0 ELSE l[MinKey(DOMAIN l)].term,
     last_applied_log |-> UnwrapOr0(IF IterLast(sm) = <<>> THEN <<>> ELSE <<IterLast(sm)[1].key>>),
     hard_state |-> h]

\* last_applied_log read from the log instead of the state machine
InitialStateOfAppliedFromLog(l, sm, h) ==
    [last_log_index |-> UnwrapOr0(IF IterLast(l) = <<>> THEN <<>> ELSE <<IterLast(l)[1].key>>),
     last_log_term |-> UnwrapOr0(IF IterLast(l) = <<>> THEN <<>> ELSE <<IterLast(l)[1].value.term>>),
     last_applied_log |-> UnwrapOr0(IF IterLast(l) = <<>> THEN <<>> ELSE <<IterLast(l)[1].key>>),
     hard_state |-> h]

\* InitialState{..} as built by Handler<GetInitialState>::handle
InitialStateOf(l, sm, h) ==
    [last_log_index |-> UnwrapOr0(IF IterLast(l) = <<>> THEN <<>> ELSE <<IterLast(l)[1].key>>),
     last_log_term |-> UnwrapOr0(IF IterLast(l) = <<>> THEN <<>> ELSE <<IterLast(l)[1].value.term>>),
     last_applied_log |-> UnwrapOr0(IF IterLast(sm) = <<>> THEN <<>> ELSE <<IterLast(sm)[1].key>>),
     hard_state |-> h]

HandleGetInitialState(msg) ==
    /\ reply' = Reply(msg, "ok", <<>>, <<InitialStateOf(log, state_machine, hs)>>, <<>>)
    /\ UNCHANGED <<store, alive, history>>

\* a save that replaces the term and the vote but keeps the old members
SavedHardStateKeepMembers(old, new) == [new EXCEPT !.members = old.members]

\* self.hs = msg.hs
SavedHardState(old, new) == new

HandleSaveHardState(msg) ==
    /\ hs' = SavedHardState(hs, msg.hs[1])
    /\ reply' = Reply(msg, "ok", <<>>, <<>>, <<>>)
    /\ saved' = <<msg.hs[1]>>
    /\ UNCHANGED <<log, snapshot_data, snapshot_dir, state_machine, alive, written, applied, applied_entry>>

\* BTreeMap::range panics when the range's start is greater than its end
RangePanics(start, stop) == start > stop

LogEntriesOf(l, start, stop) == Range(l, start, stop)

\* a read that takes the entries it returns out of the log
HandleGetLogEntriesDraining(msg) ==
    /\ IF RangePanics(msg.start, msg.stop)
       THEN /\ reply' = Reply(msg, "panic", <<>>, <<>>, <<>>)
            /\ alive' = FALSE
            /\ log' = log
       ELSE /\ reply' = Reply(msg, "ok", LogEntriesOf(log, msg.start, msg.stop), <<>>, <<>>)
            /\ alive' = alive
            /\ log' = [k \in {i \in DOMAIN log : i < msg.start \/ msg.stop <= i} |-> log[k]]
    /\ UNCHANGED <<hs, snapshot_data, snapshot_dir, state_machine, history>>

HandleGetLogEntries(msg) ==
    /\ IF RangePanics(msg.start, msg.stop)
       THEN /\ reply' = Reply(msg, "panic", <<>>, <<>>, <<>>)
            /\ alive' = FALSE
       ELSE /\ reply' = Reply(msg, "ok", LogEntriesOf(log, msg.start, msg.stop), <<>>, <<>>)
            /\ alive' = alive
    /\ UNCHANGED <<store, history>>

\* a loop that stops after the first entry of the batch
AppendedLogFirstOnly(l, entries) ==
    IF entries = <<>> THEN l
    ELSE Insert(l, Head(entries).index, Head(entries))

RECURSIVE AppendedLogTruncating(_, _)
\* a loop that drops the entries above each index it writes
AppendedLogTruncating(l, entries) ==
    IF entries = <<>> THEN l
    ELSE AppendedLogTruncating(
             Insert([k \in {j \in DOMAIN l : j <= entries[1].index} |-> l[k]],
                    entries[1].index, entries[1]),
             Tail(entries))

RECURSIVE AppendedLogKeyedByTerm(_, _)
\* a loop that stores each entry under its term
AppendedLogKeyedByTerm(l, entries) ==
    IF entries = <<>> THEN l
    ELSE AppendedLogKeyedByTerm(Insert(l, entries[1].term, entries[1]), Tail(entries))

RECURSIVE AppendedLogReversed(_, _)
\* a loop that takes the entries of the batch from the last to the first
AppendedLogReversed(l, entries) ==
    IF entries = <<>> THEN l
    ELSE AppendedLogReversed(
             Insert(l, entries[Len(entries)].index, entries[Len(entries)]),
             SubSeq(entries, 1, Len(entries) - 1))

RECURSIVE AppendedLog(_, _)
\* msg.entries.iter().for_each(|e| { self.log.insert(e.index, e.clone()); })
AppendedLog(l, entries) ==
    IF entries = <<>> THEN l
    ELSE AppendedLog(Insert(l, Head(entries).index, Head(entries)), Tail(entries))

\* a handler that rejects a batch writing one index twice
HandleAppendLogEntriesRejectRepeats(msg) ==
    IF Cardinality(Indices(msg.entries)) < Len(msg.entries)
    THEN /\ reply' = Reply(msg, "err", <<>>, <<>>, <<>>)
         /\ UNCHANGED <<store, alive, history>>
    ELSE /\ log' = AppendedLog(log, msg.entries)
         /\ reply' = Reply(msg, "ok", <<>>, <<>>, <<>>)
         /\ written' = Upserted(written, msg.entries)
         /\ UNCHANGED <<hs, snapshot_data, snapshot_dir, state_machine, alive, saved, applied, applied_entry>>

HandleAppendLogEntries(msg) ==
    /\ log' = AppendedLog(log, msg.entries)
    /\ reply' = Reply(msg, "ok", <<>>, <<>>, <<>>)
    /\ written' = Upserted(written, msg.entries)
    /\ UNCHANGED <<hs, snapshot_data, snapshot_dir, state_machine, alive, saved, applied, applied_entry>>

\* a handler body that replaces the store by the batch
AppliedStateMachineReplacing(sm, entries) == Upserted(EmptyMap, entries)

RECURSIVE AppliedStateMachineKeyedByTerm(_, _)
\* a loop that stores each entry under its term instead of its index
AppliedStateMachineKeyedByTerm(sm, entries) ==
    IF entries = <<>> THEN sm
    ELSE AppliedStateMachineKeyedByTerm(Insert(sm, Head(entries).term, Head(entries)),
                                        Tail(entries))

RECURSIVE AppliedStateMachine(_, _)
\* msg.entries.iter().for_each(|e| { self.state_machine.insert(e.index, e.clone()); })
AppliedStateMachine(sm, entries) ==
    IF entries = <<>> THEN sm
    ELSE AppliedStateMachine(Insert(sm, Head(entries).index, Head(entries)), Tail(entries))

\* a handler that writes the applied entries into the log as well
HandleApplyEntriesAlsoIntoLog(msg) ==
    /\ state_machine' = AppliedStateMachine(state_machine, msg.entries)
    /\ log' = AppendedLog(log, msg.entries)
    /\ reply' = Reply(msg, "ok", <<>>, <<>>, <<>>)
    /\ applied' = applied \cup Indices(msg.entries)
    /\ applied_entry' = Upserted(applied_entry, msg.entries)
    /\ UNCHANGED <<hs, snapshot_data, snapshot_dir, alive, written, saved>>

HandleApplyEntriesToStateMachine(msg) ==
    /\ state_machine' = AppliedStateMachine(state_machine, msg.entries)
    /\ reply' = Reply(msg, "ok", <<>>, <<>>, <<>>)
    /\ applied' = applied \cup Indices(msg.entries)
    /\ applied_entry' = Upserted(applied_entry, msg.entries)
    /\ UNCHANGED <<hs, log, snapshot_data, snapshot_dir, alive, written, saved>>

\* a snapshot creation that reports success
CreateSnapshotStatusOk(msg) == "ok"

\* Box::new(fut::err(MemoryStorageError))
CreateSnapshotStatus(msg) == "err"
InstallSnapshotStatus(msg) == "err"

HandleCreateSnapshot(msg) ==
    /\ reply' = Reply(msg, CreateSnapshotStatus(msg), <<>>, <<>>, <<>>)
    /\ UNCHANGED <<store, alive, history>>

HandleInstallSnapshot(msg) ==
    /\ reply' = Reply(msg, InstallSnapshotStatus(msg), <<>>, <<>>, <<>>)
    /\ UNCHANGED <<store, alive, history>>

\* a read that answers with a descriptor when the slot is empty
CurrentSnapshotOfDefault(sd) == IF sd = <<>> THEN <<[index |-> 0, term |-> 0]>> ELSE sd

\* fut::ok(self.snapshot_data.clone())
CurrentSnapshotOf(sd) == sd

HandleGetCurrentSnapshot(msg) ==
    /\ reply' = Reply(msg, "ok", <<>>, <<>>, CurrentSnapshotOf(snapshot_data))
    /\ UNCHANGED <<store, alive, history>>

\* -------------------------------------------------------------- actions
\* one message handled by the actor; a handler that panicked ends the actor
GetInitialState ==
    /\ alive
    /\ \E msg \in GetInitialStateMsgs : HandleGetInitialState(msg)
    /\ UNCHANGED actor
SaveHardState ==
    /\ alive
    /\ \E msg \in SaveHardStateMsgs : HandleSaveHardState(msg)
    /\ UNCHANGED actor
GetLogEntries ==
    /\ alive
    /\ \E msg \in GetLogEntriesMsgs : HandleGetLogEntries(msg)
    /\ UNCHANGED actor
AppendLogEntries ==
    /\ alive
    /\ \E msg \in AppendLogEntriesMsgs : HandleAppendLogEntries(msg)
    /\ UNCHANGED actor
ApplyEntriesToStateMachine ==
    /\ alive
    /\ \E msg \in ApplyEntriesToStateMachineMsgs : HandleApplyEntriesToStateMachine(msg)
    /\ UNCHANGED actor
CreateSnapshot ==
    /\ alive
    /\ \E msg \in CreateSnapshotMsgs : HandleCreateSnapshot(msg)
    /\ UNCHANGED actor
InstallSnapshot ==
    /\ alive
    /\ \E msg \in InstallSnapshotMsgs : HandleInstallSnapshot(msg)
    /\ UNCHANGED actor
GetCurrentSnapshot ==
    /\ alive
    /\ \E msg \in GetCurrentSnapshotMsgs : HandleGetCurrentSnapshot(msg)
    /\ UNCHANGED actor

Next ==
    \/ GetInitialState
    \/ SaveHardState
    \/ GetLogEntries
    \/ AppendLogEntries
    \/ ApplyEntriesToStateMachine
    \/ CreateSnapshot
    \/ InstallSnapshot
    \/ GetCurrentSnapshot

Spec == Init /\ [][Next]_vars

\* ---------------------------------------------------------------- actor
\* Context<MemoryStorage>: callers holding the actor's address enqueue
\* messages, the actor takes them from its mailbox one at a time and runs
\* the handler of each to its end (handle takes &mut self)
Callers == {"c1", "c2"}
E(i, t) == [index |-> i, term |-> t, payload |-> "x"]
CallerMsgs ==
    {Msg("AppendLogEntries", [NoArgs EXCEPT !.entries = <<E(0, 1), E(1, 1)>>]),
     Msg("AppendLogEntries", [NoArgs EXCEPT !.entries = <<E(1, 2), E(0, 2)>>]),
     Msg("ApplyEntriesToStateMachine", [NoArgs EXCEPT !.entries = <<E(0, 1), E(1, 1)>>]),
     Msg("SaveHardState",
         [NoArgs EXCEPT !.hs = <<[current_term |-> 1, voted_for |-> <<"n1">>,
                                  members |-> <<"n1">>]>>]),
     Msg("GetLogEntries", [NoArgs EXCEPT !.start = 0, !.stop = 2]),
     Msg("GetLogEntries", [NoArgs EXCEPT !.start = 1, !.stop = 0]),
     Msg("GetInitialState", NoArgs),
     Msg("CreateSnapshot", NoArgs)}

Dispatch(msg) ==
    CASE msg.op = "GetInitialState" -> HandleGetInitialState(msg)
      [] msg.op = "SaveHardState" -> HandleSaveHardState(msg)
      [] msg.op = "GetLogEntries" -> HandleGetLogEntries(msg)
      [] msg.op = "AppendLogEntries" -> HandleAppendLogEntries(msg)
      [] msg.op = "ApplyEntriesToStateMachine" -> HandleApplyEntriesToStateMachine(msg)
      [] msg.op = "CreateSnapshot" -> HandleCreateSnapshot(msg)
      [] msg.op = "InstallSnapshot" -> HandleInstallSnapshot(msg)
      [] msg.op = "GetCurrentSnapshot" -> HandleGetCurrentSnapshot(msg)

\* a caller sends a message: it joins the end of the mailbox
Send ==
    /\ alive
    /\ Len(arrived) < MaxSent
    /\ \E c \in Callers, msg \in CallerMsgs :
          /\ mailbox' = Append(mailbox, [caller |-> c, msg |-> msg])
          /\ arrived' = Append(arrived, [caller |-> c, msg |-> msg])
    /\ UNCHANGED <<store, alive, reply, history, replies>>

\* the actor handles the message at the head of its mailbox
Deliver ==
    /\ alive
    /\ mailbox # <<>>
    /\ Dispatch(Head(mailbox).msg)
    /\ mailbox' = Tail(mailbox)
    /\ replies' = Append(replies, reply')
    /\ UNCHANGED arrived

NextActor ==
    \/ Send
    \/ Deliver

SpecActor == Init /\ [][NextActor]_vars

\* --------------------------------------------------------------- claims
IsReply(op) == reply.msg.op = op
\* the values of m under the keys of S, the j-th being the one under the
\* key that has j - 1 smaller keys in S
Ascending(m, S) ==
    [j \in 1..Cardinality(S) |->
        m[CHOOSE k \in S : Cardinality({i \in S : i < k}) = j - 1]]
MaxOr0(S) == IF S = {} THEN 0 ELSE CHOOSE k \in S : \A j \in S : j <= k
FullRange(msg) == msg.start = 0 /\ msg.stop = MaxIndex + 1

\* C1: for any range [a,b), GetLogEntries(a,b) returns exactly the entries
\* stored in the log with a <= index < b, in ascending index order, and the
\* empty sequence when no stored index is in the range.
C1_GetLogEntriesExact ==
    IsReply("GetLogEntries") =>
        /\ reply.status = "ok"
        /\ reply.entries =
             Ascending(log, {i \in DOMAIN log : reply.msg.start <= i /\ i < reply.msg.stop})

\* with start <= stop the reply of GetLogEntries is exactly the stored
\* entries of the range, in ascending index order
GetLogEntriesExactWhenOrdered ==
    (IsReply("GetLogEntries") /\ reply.msg.start <= reply.msg.stop) =>
        /\ reply.status = "ok"
        /\ reply.entries =
             Ascending(log, {i \in DOMAIN log : reply.msg.start <= i /\ i < reply.msg.stop})

\* C2: after any sequence of AppendLogEntries calls, GetLogEntries over the
\* full index range returns entries of strictly increasing index, no index
\* twice, one per index written, each the entry last written at its index.
C2_FullRangeSortedLastWriterWins ==
    (IsReply("GetLogEntries") /\ FullRange(reply.msg)) =>
        /\ reply.status = "ok"
        /\ \A j \in 1..(Len(reply.entries) - 1) :
               reply.entries[j].index < reply.entries[j + 1].index
        /\ {reply.entries[j].index : j \in 1..Len(reply.entries)} = DOMAIN written
        /\ \A j \in 1..Len(reply.entries) :
               reply.entries[j] = written[reply.entries[j].index]
C2_Witness ==
    /\ IsReply("GetLogEntries") /\ FullRange(reply.msg)
    /\ Len(reply.entries) = MaxIndex + 1
    /\ reply.entries[1].term # reply.entries[2].term

\* C3: GetInitialState after SaveHardState(h) returns a hard_state equal to
\* h, the hard state of the last SaveHardState processed, in all three
\* fields.
C3_SavedHardStateReturned ==
    (IsReply("GetInitialState") /\ saved # <<>>) =>
        /\ reply.state[1].hard_state.current_term = saved[1].current_term
        /\ reply.state[1].hard_state.voted_for = saved[1].voted_for
        /\ reply.state[1].hard_state.members = saved[1].members
C3_Witness ==
    /\ IsReply("GetInitialState") /\ saved # <<>>
    /\ reply.state[1].hard_state.current_term = 2
    /\ reply.state[1].hard_state.members = <<"n2", "n3">>

\* C4: GetInitialState returns as last_log_index and last_log_term the index
\* and the term of the one entry of the log with the largest index, and 0
\* and 0 when the log is empty.
C4_LastLogIsMaxEntry ==
    IsReply("GetInitialState") =>
        IF DOMAIN log = {}
        THEN reply.state[1].last_log_index = 0 /\ reply.state[1].last_log_term = 0
        ELSE \E k \in DOMAIN log :
                /\ \A j \in DOMAIN log : j <= k
                /\ reply.state[1].last_log_index = k
                /\ reply.state[1].last_log_index = log[k].index
                /\ reply.state[1].last_log_term = log[k].term
C4_Witness ==
    /\ IsReply("GetInitialState")
    /\ Cardinality(DOMAIN log) = MaxIndex + 1
    /\ log[0].term # log[MaxIndex].term
    /\ reply.state[1].last_log_index = MaxIndex

\* C5: GetInitialState returns as last_applied_log the largest index of the
\* state-machine store, 0 when the store is empty; with nothing applied it
\* is 0 whatever was appended to the log.
C5_LastAppliedIsMaxApplied ==
    IsReply("GetInitialState") =>
        /\ reply.state[1].last_applied_log = MaxOr0(DOMAIN state_machine)
        /\ applied = {} => reply.state[1].last_applied_log = 0
C5_Witness ==
    /\ IsReply("GetInitialState")
    /\ DOMAIN log # {}
    /\ reply.state[1].last_applied_log = MaxIndex
    /\ reply.state[1].last_log_index < reply.state[1].last_applied_log

\* C6: every CreateSnapshot and every InstallSnapshot fails with the storage
\* error and leaves the hard state, the log, the state-machine store and the
\* snapshot slot as they were.
C6_SnapshotsFailWithoutEffect ==
    [][reply'.msg.op \in {"CreateSnapshot", "InstallSnapshot"} =>
          /\ reply'.status = "err"
          /\ hs' = hs /\ log' = log
          /\ state_machine' = state_machine /\ snapshot_data' = snapshot_data]_vars
C6_Witness ==
    /\ IsReply("CreateSnapshot") /\ reply.status = "err"
    /\ DOMAIN log # {} /\ DOMAIN state_machine # {} /\ saved # <<>>

\* C7: the snapshot slot is never filled, and GetCurrentSnapshot returns
\* absent after every sequence of operations.
C7_CurrentSnapshotAbsent ==
    /\ snapshot_data = <<>>
    /\ IsReply("GetCurrentSnapshot") => (reply.status = "ok" /\ reply.snapshot = <<>>)
C7_Witness ==
    /\ IsReply("GetCurrentSnapshot") /\ reply.snapshot = <<>>
    /\ DOMAIN log # {} /\ DOMAIN state_machine # {} /\ saved # <<>>

\* C8: GetLogEntries completes and returns a sequence of entries for every
\* pair of start and stop values.
C8_GetLogEntriesNeverFails ==
    IsReply("GetLogEntries") => reply.status = "ok"

SeqInit ==
    [hs |-> NewHardState(InitMembers), log |-> EmptyMap, sm |-> EmptyMap,
     sd |-> <<>>, alive |-> TRUE, replies |-> <<>>]
SeqInitialState(st) ==
    [last_log_index |-> MaxOr0(DOMAIN st.log),
     last_log_term |-> IF DOMAIN st.log = {} THEN 0 ELSE st.log[MaxOr0(DOMAIN st.log)].term,
     last_applied_log |-> MaxOr0(DOMAIN st.sm),
     hard_state |-> st.hs]
SeqReply(st, msg) ==
    CASE msg.op = "GetInitialState" -> Reply(msg, "ok", <<>>, <<SeqInitialState(st)>>, <<>>)
      [] msg.op = "GetLogEntries" ->
            IF msg.start > msg.stop THEN Reply(msg, "panic", <<>>, <<>>, <<>>)
            ELSE Reply(msg, "ok",
                       Ascending(st.log, {i \in DOMAIN st.log : msg.start <= i /\ i < msg.stop}),
                       <<>>, <<>>)
      [] msg.op \in {"CreateSnapshot", "InstallSnapshot"} -> Reply(msg, "err", <<>>, <<>>, <<>>)
      [] msg.op = "GetCurrentSnapshot" -> Reply(msg, "ok", <<>>, <<>>, st.sd)
      [] OTHER -> Reply(msg, "ok", <<>>, <<>>, <<>>)
SeqStep(st, msg) ==
    [hs |-> IF msg.op = "SaveHardState" THEN msg.hs[1] ELSE st.hs,
     log |-> IF msg.op = "AppendLogEntries" THEN Upserted(st.log, msg.entries) ELSE st.log,
     sm |-> IF msg.op = "ApplyEntriesToStateMachine" THEN Upserted(st.sm, msg.entries) ELSE st.sm,
     sd |-> st.sd,
     alive |-> SeqReply(st, msg).status # "panic",
     replies |-> Append(st.replies, SeqReply(st, msg))]
RECURSIVE SeqRun(_, _)
SeqRun(st, msgs) ==
    IF msgs = <<>> THEN st ELSE SeqRun(SeqStep(st, Head(msgs)), Tail(msgs))

\* C10: the messages of several callers are handled one at a time in
\* arrival order, each handler as a whole: the replies given so far and the
\* stores are those of running the messages handled so far one after the
\* other in arrival order, and the mailbox holds the rest in arrival order.
C10_HandledInArrivalOrderAtomically ==
    LET n == Len(replies)
        ref == SeqRun(SeqInit, [k \in 1..n |-> arrived[k].msg])
    IN  /\ n <= Len(arrived)
        /\ mailbox = SubSeq(arrived, n + 1, Len(arrived))
        /\ replies = ref.replies
        /\ hs = ref.hs /\ log = ref.log /\ state_machine = ref.sm
        /\ snapshot_data = ref.sd /\ alive = ref.alive
C10_Witness ==
    /\ Len(replies) = 3
    /\ arrived[1].caller # arrived[2].caller
    /\ replies[1].msg.op = "AppendLogEntries"
    /\ replies[2].msg.op = "AppendLogEntries" /\ replies[2].msg # replies[1].msg
    /\ replies[3].msg.op = "GetLogEntries"
    /\ Len(replies[3].entries) = 2
    /\ replies[3].entries = replies[2].msg.entries

\* C11: a backend constructed with members M holds the hard state
\* {current_term 0, no vote, members M}, an empty log, an empty state-machine
\* store and no snapshot, and a GetInitialState handled before any other
\* message returns 0, 0, 0 and that hard state.
C11_FreshBackend ==
    /\ [](IsReply("new") =>
            /\ hs = [current_term |-> 0, voted_for |-> <<>>, members |-> InitMembers]
            /\ DOMAIN log = {} /\ DOMAIN state_machine = {} /\ snapshot_data = <<>>)
    /\ [][(IsReply("new") /\ reply'.msg.op = "GetInitialState") =>
            /\ reply'.status = "ok"
            /\ reply'.state[1].last_log_index = 0
            /\ reply'.state[1].last_log_term = 0
            /\ reply'.state[1].last_applied_log = 0
            /\ reply'.state[1].hard_state =
                 [current_term |-> 0, voted_for |-> <<>>, members |-> InitMembers]]_vars
C11_Witness ==
    /\ IsReply("GetInitialState")
    /\ written = EmptyMap /\ saved = <<>> /\ applied = {}
    /\ reply.state[1].last_log_index = 0
    /\ reply.state[1].hard_state.current_term = 0
    /\ reply.state[1].hard_state.members = InitMembers

C13_EachOperationChangesItsOwnStore ==
    [][/\ state_machine' # state_machine => reply'.msg.op = "ApplyEntriesToStateMachine"
       /\ log' # log => reply'.msg.op = "AppendLogEntries"
       /\ hs' # hs => reply'.msg.op = "SaveHardState"
       /\ snapshot_data' = snapshot_data /\ snapshot_dir' = snapshot_dir
       /\ reply'.msg.op = "AppendLogEntries" =>
             (hs' = hs /\ state_machine' = state_machine)
       /\ reply'.msg.op = "ApplyEntriesToStateMachine" =>
             (hs' = hs /\ log' = log)
       /\ reply'.msg.op = "SaveHardState" =>
             (log' = log /\ state_machine' = state_machine)]_vars
C13_Witness ==
    /\ IsReply("AppendLogEntries")
    /\ 0 \in Indices(reply.msg.entries)
    /\ 0 \in DOMAIN state_machine /\ 0 \in DOMAIN log
    /\ log[0] # state_machine[0]

\* C14: whenever ApplyEntriesToStateMachine adds an index to the
\* state-machine store, that index is not smaller than any index already in
\* the store.
C14_AppliedInNonDecreasingOrder ==
    [][\A i \in DOMAIN state_machine' \ DOMAIN state_machine :
           \A j \in DOMAIN state_machine : j <= i]_vars

\* C14 as amended: an ApplyEntriesToStateMachine step adds to the
\* state-machine store exactly the indices of its batch that were not yet
\* there, so when no index of the batch is below the largest index of the
\* store, no index it adds is smaller than an index already present.
C14_AppliedInTheOrderHandedIn ==
    [][/\ DOMAIN state_machine' # DOMAIN state_machine =>
             reply'.msg.op = "ApplyEntriesToStateMachine"
       /\ reply'.msg.op = "ApplyEntriesToStateMachine" =>
             /\ DOMAIN state_machine' = DOMAIN state_machine \cup Indices(reply'.msg.entries)
             /\ (\A i \in Indices(reply'.msg.entries) : MaxOr0(DOMAIN state_machine) <= i) =>
                   \A i \in DOMAIN state_machine' \ DOMAIN state_machine :
                       \A j \in DOMAIN state_machine : j <= i]_vars
C14_Witness ==
    /\ IsReply("ApplyEntriesToStateMachine")
    /\ Len(reply.msg.entries) = 2
    /\ reply.msg.entries[1].index < reply.msg.entries[2].index
    /\ DOMAIN state_machine = Indices(reply.msg.entries)

\* C15: after an AppendLogEntries or ApplyEntriesToStateMachine call the
\* entry stored at each index of the batch is the entry of that index that
\* occurs last in the batch.
C15_LastInBatchWins ==
    /\ IsReply("AppendLogEntries") =>
          \A j \in 1..Len(reply.msg.entries) :
              (\A k \in (j + 1)..Len(reply.msg.entries) :
                   reply.msg.entries[k].index # reply.msg.entries[j].index)
                  => /\ reply.msg.entries[j].index \in DOMAIN log
                     /\ log[reply.msg.entries[j].index] = reply.msg.entries[j]
    /\ IsReply("ApplyEntriesToStateMachine") =>
          \A j \in 1..Len(reply.msg.entries) :
              (\A k \in (j + 1)..Len(reply.msg.entries) :
                   reply.msg.entries[k].index # reply.msg.entries[j].index)
                  => /\ reply.msg.entries[j].index \in DOMAIN state_machine
                     /\ state_machine[reply.msg.entries[j].index] = reply.msg.entries[j]
C15_Witness ==
    /\ IsReply("ApplyEntriesToStateMachine")
    /\ Len(reply.msg.entries) = 2
    /\ reply.msg.entries[1].index = reply.msg.entries[2].index
    /\ reply.msg.entries[1] # reply.msg.entries[2]
    /\ state_machine[reply.msg.entries[2].index] = reply.msg.entries[2]

\* C16: every entry held in the log is an entry that was handed to
\* AppendLogEntries and is stored under its own index; every entry held in
\* the state-machine store is an entry that was handed to
\* ApplyEntriesToStateMachine and is stored under its own index.
C16_NoSynthesizedContent ==
    /\ \A k \in DOMAIN log :
           /\ k \in DOMAIN written
           /\ log[k] = written[k]
           /\ log[k].index = k
    /\ \A k \in DOMAIN state_machine :
           /\ k \in DOMAIN applied_entry
           /\ state_machine[k] = applied_entry[k]
           /\ state_machine[k].index = k
C16_Witness ==
    /\ Cardinality(DOMAIN log) = MaxIndex + 1
    /\ DOMAIN state_machine = {0}
    /\ log[0] # state_machine[0]
    /\ IsReply("SaveHardState")

\* C17: an AppendLogEntries call succeeds whatever the indices of its batch
\* are, adds the indices of the batch to the log and removes none, leaves
\* the entry of every index outside the batch as it was (indices above the
\* written ones included), and the last_log_index the backend reports
\* afterwards is the greatest index present.
C17_AppendIsUpsertWithoutRemoval ==
    [][(reply'.msg.op = "AppendLogEntries") =>
          /\ reply'.status = "ok"
          /\ DOMAIN log' = DOMAIN log \cup Indices(reply'.msg.entries)
          /\ \A k \in DOMAIN log \ Indices(reply'.msg.entries) : log'[k] = log[k]
          /\ \A k \in Indices(reply'.msg.entries) :
                 log'[k] = LastAt(reply'.msg.entries, k)
          /\ InitialStateOf(log', state_machine', hs').last_log_index
                 = MaxOr0(DOMAIN log')]_vars
C17_Witness ==
    /\ IsReply("AppendLogEntries")
    /\ Indices(reply.msg.entries) = {0}
    /\ MaxIndex \in DOMAIN log
    /\ log[MaxIndex].term = 2
    /\ log[0].term = 1

\* C18: no step of any of the eight operations removes an index from the
\* log or from the state-machine store, so the last_log_index and the
\* last_applied_log of the state, which are read from the index sets, do
\* not decrease where a set changes, and these are the values a
\* GetInitialState call reports.
C18_IndexSetsNeverShrink ==
    [][LET before == InitialStateOf(log, state_machine, hs)
           after == InitialStateOf(log', state_machine', hs')
       IN  /\ DOMAIN log \subseteq DOMAIN log'
           /\ DOMAIN state_machine \subseteq DOMAIN state_machine'
           /\ (DOMAIN log' # DOMAIN log) =>
                  after.last_log_index >= before.last_log_index
           /\ (DOMAIN state_machine' # DOMAIN state_machine) =>
                  after.last_applied_log >= before.last_applied_log
           /\ (reply'.msg.op = "GetInitialState") =>
                  /\ reply'.state[1].last_log_index = after.last_log_index
                  /\ reply'.state[1].last_applied_log = after.last_applied_log]_vars
C18_Witness ==
    /\ IsReply("GetInitialState")
    /\ reply.state[1].last_log_index = MaxIndex
    /\ reply.state[1].last_applied_log = MaxIndex
    /\ reply.state[1].last_log_term = 1
    /\ DOMAIN log = {0, MaxIndex}
    /\ log[0].term = 2
    /\ DOMAIN state_machine = {0, MaxIndex}

\* C19: an AppendLogEntries, ApplyEntriesToStateMachine or SaveHardState call
\* that repeats the call before it, argument included, leaves every field
\* of the backend as the first call left it and gets the same answer; an
\* AppendLogEntries or ApplyEntriesToStateMachine call with an empty batch
\* leaves every field as it was.
C19_RepeatedCallChangesNothing ==
    [][/\ (/\ reply'.msg = reply.msg
           /\ reply'.msg.op \in {"AppendLogEntries", "ApplyEntriesToStateMachine",
                                 "SaveHardState"}) =>
              /\ store' = store
              /\ reply' = reply
       /\ (/\ reply'.msg.op \in {"AppendLogEntries", "ApplyEntriesToStateMachine"}
           /\ reply'.msg.entries = <<>>) =>
              /\ store' = store
              /\ reply'.status = "ok"]_vars
C19_Witness ==
    /\ IsReply("AppendLogEntries")
    /\ reply.msg.entries = <<>>
    /\ Cardinality(DOMAIN log) = MaxIndex + 1
    /\ DOMAIN state_machine # {}
    /\ saved # <<>>

====
